---- MODULE Spec2Model ----
(***************************************************************************)
(* Sampling regions of constrained_learning/regions.py: Box, BoxSurface    *)
(* and OrthogonalSurface.                                                  *)
(*                                                                         *)
(* Arrays are numpy arrays: a record of a shape (a tuple) and 0-based      *)
(* data.  Real coordinates are taken from an integer grid; a quotient of   *)
(* two floats is kept as an exact fraction, which is what the double       *)
(* arithmetic of the source yields on this grid.                           *)
(***************************************************************************)
EXTENDS Integers, Sequences, FiniteSets, TLC

MaxDim == 2      \* longest bound vector
MaxVal == 2      \* bound values and point coordinates range over 0..MaxVal
MaxBoxN == 2     \* largest num_samples of Box.sample
MaxN   == 3      \* largest num_samples of BoxSurface.sample
MaxPts == 2      \* most rows of the array handed to the normal function

Vals == 0..MaxVal

Abs(x) == IF x < 0 THEN -x ELSE x
Min2(a, b) == IF a <= b THEN a ELSE b
Max2(a, b) == IF a <= b THEN b ELSE a

(***************************************************************************)
(* numpy arrays                                                            *)
(***************************************************************************)
Ndim(a) == Len(a.shape)

\* the bound vectors a caller may pass: rank-1 arrays, 0-d scalars and
\* rank-2 arrays
Rank1 == UNION {{[shape |-> <<n>>, data |-> d] : d \in [0..(n - 1) -> Vals]} : n \in 0..MaxDim}
Rank0 == {[shape |-> <<>>, data |-> [i \in {0} |-> v]] : v \in Vals}
Rank2 == {[shape |-> <<1, 1>>, data |-> [i \in 0..0 |-> 0]],
          [shape |-> <<1, 2>>, data |-> [i \in 0..1 |-> 0]],
          [shape |-> <<2, 1>>, data |-> [i \in 0..1 |-> 0]]}
Arrays == Rank1 \cup Rank0 \cup Rank2

\* a[mask] with mask all ones except mask[i] = 0
Masked(a, i) ==
    LET n == a.shape[1]
    IN  [shape |-> <<n - 1>>,
         data  |-> [j \in 0..(n - 2) |-> IF j < i THEN a.data[j] ELSE a.data[j + 1]]]

\* np.prod over a 0-based family of numbers; the empty product is 1
RECURSIVE ProdTo(_, _)
ProdTo(d, n) == IF n = 0 THEN 1 ELSE d[n - 1] * ProdTo(d, n - 1)

\* sum([...]) of a 0-based family of numbers; the empty sum is 0
RECURSIVE SumTo(_, _)
SumTo(d, n) == IF n = 0 THEN 0 ELSE SumTo(d, n - 1) + d[n - 1]

(***************************************************************************)
(* Box                                                                     *)
(***************************************************************************)
NoObject == [class |-> "none"]

BoxInit_noRankCheck(upper_bounds, lower_bounds) ==
    IF upper_bounds.shape # lower_bounds.shape
    THEN [class |-> "none", raised |-> "ValueError"]
    ELSE [class |-> "Box", raised |-> "none",
          upper_bounds |-> upper_bounds, lower_bounds |-> lower_bounds,
          inp_dim |-> IF Ndim(upper_bounds) = 0 THEN 0 ELSE upper_bounds.shape[1]]

\* Box.__init__: the object, or the exception raised
BoxInit(upper_bounds, lower_bounds) ==
    IF upper_bounds.shape # lower_bounds.shape \/ Ndim(upper_bounds) # 1
    THEN [class |-> "none", raised |-> "ValueError"]
    ELSE [class |-> "Box", raised |-> "none",
          upper_bounds |-> upper_bounds, lower_bounds |-> lower_bounds,
          inp_dim |-> upper_bounds.shape[1]]

\* Box.__contains__
RECURSIVE ContainsFrom(_, _, _)
ContainsFrom(box, item, i) ==
    IF i >= box.upper_bounds.shape[1] THEN TRUE
    ELSE IF ~(box.lower_bounds.data[i] <= item[i] /\ item[i] <= box.upper_bounds.data[i])
         THEN FALSE
         ELSE ContainsFrom(box, item, i + 1)

Contains(box, item) == ContainsFrom(box, item, 0)

BoxGetMass_noAbs(box) ==
    ProdTo([i \in 0..(box.inp_dim - 1) |->
                box.upper_bounds.data[i] - box.lower_bounds.data[i]], box.inp_dim)

\* Box.get_mass
BoxGetMass(box) ==
    ProdTo([i \in 0..(box.inp_dim - 1) |->
                Abs(box.upper_bounds.data[i] - box.lower_bounds.data[i])], box.inp_dim)

Uniform_wide(low, high) == Min2(low, high)..(Max2(low, high) + 1)

\* np.random.uniform(low, high): low + (high - low) * r with r in [0, 1);
\* the far end may be returned through rounding
Uniform(low, high) == Min2(low, high)..Max2(low, high)

\* one row of np.random.uniform(lower_bounds, upper_bounds, ...): coordinate
\* j is drawn between lower_bounds[j] and upper_bounds[j]; the rows over the
\* first n axes
RECURSIVE UniformRow(_, _, _)
UniformRow(lower_bounds, upper_bounds, n) ==
    IF n = 0 THEN {[j \in {} |-> 0]}
    ELSE {[j \in 0..(n - 1) |-> IF j = n - 1 THEN v ELSE p[j]] :
            p \in UniformRow(lower_bounds, upper_bounds, n - 1),
            v \in Uniform(lower_bounds.data[n - 1], upper_bounds.data[n - 1])}

\* np.random.uniform(lower_bounds, upper_bounds, size=(num_samples, inp_dim)):
\* the arrays it may return, as 0-based rows of 0-based coordinates
UniformRows(lower_bounds, upper_bounds, num_samples, inp_dim) ==
    [0..(num_samples - 1) -> UniformRow(lower_bounds, upper_bounds, inp_dim)]

\* Box.sample
BoxSample(box, num_samples) ==
    UniformRows(box.lower_bounds, box.upper_bounds, num_samples, box.inp_dim)

(***************************************************************************)
(* OrthogonalSurface                                                       *)
(***************************************************************************)
\* full = np.zeros(inp_dim); full[mask] = bounds; full[offset_dim] = offset
Unmasked(bounds, offset, offset_dim) ==
    LET n == bounds.shape[1] + 1
    IN  [shape |-> <<n>>,
         data  |-> [j \in 0..(n - 1) |->
                       IF j = offset_dim THEN offset
                       ELSE IF j < offset_dim THEN bounds.data[j] ELSE bounds.data[j - 1]]]

\* OrthogonalSurface.__init__
OrthogonalSurfaceInit(upper_bounds, lower_bounds, offset, offset_dim, side) ==
    LET up == Unmasked(upper_bounds, offset, offset_dim)
        lo == Unmasked(lower_bounds, offset, offset_dim)
    IN  [class |-> "OrthogonalSurface",
         inp_dim |-> upper_bounds.shape[1] + 1,
         _upper_bounds |-> upper_bounds, _lower_bounds |-> lower_bounds,
         upper_bounds |-> up, lower_bounds |-> lo,
         _surface |-> BoxInit(up, lo),
         offset |-> offset, offset_dim |-> offset_dim, side |-> side]

OrthogonalSurfaceGetMass_allAxes(s) ==
    ProdTo([j \in 0..(s.inp_dim - 1) |->
                Abs(s.upper_bounds.data[j] - s.lower_bounds.data[j])], s.inp_dim)

\* OrthogonalSurface.get_mass
OrthogonalSurfaceGetMass(s) ==
    LET up == Masked(s.upper_bounds, s.offset_dim)
        lo == Masked(s.lower_bounds, s.offset_dim)
    IN  ProdTo([j \in 0..(s.inp_dim - 2) |-> Abs(up.data[j] - lo.data[j])], s.inp_dim - 1)

\* OrthogonalSurface.sample
OrthogonalSurfaceSample(s, num_samples) == BoxSample(s._surface, num_samples)

\* OrthogonalSurface.distance
Distance(s, point) == Abs(point[s.offset_dim] - s.offset)

OrthogonalSurfaceNormal_flipped(s, point) ==
    [j \in 0..(s.inp_dim - 1) |->
        IF j = s.offset_dim THEN (IF s.side = "top" THEN -1 ELSE 1) ELSE 0]

\* OrthogonalSurface.normal
OrthogonalSurfaceNormal(s, point) ==
    [j \in 0..(s.inp_dim - 1) |->
        IF j = s.offset_dim THEN (IF s.side = "top" THEN 1 ELSE -1) ELSE 0]

(***************************************************************************)
(* BoxSurface                                                              *)
(***************************************************************************)
BoxSurfaceInit_swappedOffsets(upper_bounds, lower_bounds) ==
    LET box == BoxInit(upper_bounds, lower_bounds)
    IN  IF box.raised # "none" THEN box
        ELSE [class |-> "BoxSurface", raised |-> "none",
              upper_bounds |-> box.upper_bounds, lower_bounds |-> box.lower_bounds,
              inp_dim |-> box.inp_dim,
              surfaces |-> [f \in 0..(2 * box.inp_dim - 1) |->
                  LET i == f \div 2
                  IN  IF f % 2 = 0
                      THEN OrthogonalSurfaceInit(Masked(box.upper_bounds, i),
                                                 Masked(box.lower_bounds, i),
                                                 box.lower_bounds.data[i], i, "top")
                      ELSE OrthogonalSurfaceInit(Masked(box.upper_bounds, i),
                                                 Masked(box.lower_bounds, i),
                                                 box.upper_bounds.data[i], i, "bottom")]]

\* BoxSurface.__init__: Box.__init__ first, then surfaces[2 * i] and
\* surfaces[2 * i + 1] for every axis i
BoxSurfaceInit(upper_bounds, lower_bounds) ==
    LET box == BoxInit(upper_bounds, lower_bounds)
    IN  IF box.raised # "none" THEN box
        ELSE [class |-> "BoxSurface", raised |-> "none",
              upper_bounds |-> box.upper_bounds, lower_bounds |-> box.lower_bounds,
              inp_dim |-> box.inp_dim,
              surfaces |-> [f \in 0..(2 * box.inp_dim - 1) |->
                  LET i == f \div 2
                  IN  IF f % 2 = 0
                      THEN OrthogonalSurfaceInit(Masked(box.upper_bounds, i),
                                                 Masked(box.lower_bounds, i),
                                                 box.upper_bounds.data[i], i, "top")
                      ELSE OrthogonalSurfaceInit(Masked(box.upper_bounds, i),
                                                 Masked(box.lower_bounds, i),
                                                 box.lower_bounds.data[i], i, "bottom")]]

NumSurfaces(obj) == 2 * obj.inp_dim

\* BoxSurface.get_mass
BoxSurfaceGetMass(obj) ==
    SumTo([f \in 0..(NumSurfaces(obj) - 1) |-> OrthogonalSurfaceGetMass(obj.surfaces[f])],
          NumSurfaces(obj))

(***************************************************************************)
(* Float quotients and int()                                               *)
(***************************************************************************)
FloatDiv_guarded(a, b) ==
    IF b = 0 THEN [kind |-> "fin", num |-> 0, den |-> 1]
    ELSE [kind |-> "fin", num |-> a, den |-> b]

\* a / b on numpy floats: 0.0 / 0.0 is nan and x / 0.0 is inf (a warning, no
\* exception); otherwise the fraction a / b
FloatDiv(a, b) ==
    IF b = 0 THEN [kind |-> IF a = 0 THEN "nan" ELSE "inf", num |-> 0, den |-> 1]
    ELSE [kind |-> "fin", num |-> a, den |-> b]

\* x * n for a float x and an integer n
FloatMul(x, n) ==
    IF x.kind = "nan" \/ (x.kind = "inf" /\ n = 0) THEN [kind |-> "nan", num |-> 0, den |-> 1]
    ELSE IF x.kind = "inf" THEN x
    ELSE [kind |-> "fin", num |-> x.num * n, den |-> x.den]

PyInt_roundUp(x) ==
    IF x.kind = "nan" THEN [raised |-> "ValueError", value |-> 0]
    ELSE IF x.kind = "inf" THEN [raised |-> "OverflowError", value |-> 0]
    ELSE [raised |-> "none", value |-> (x.num + x.den - 1) \div x.den]

\* int(x): truncation toward zero; int(nan) and int(inf) raise
PyInt(x) ==
    IF x.kind = "nan" THEN [raised |-> "ValueError", value |-> 0]
    ELSE IF x.kind = "inf" THEN [raised |-> "OverflowError", value |-> 0]
    ELSE [raised |-> "none",
          value |-> IF (x.num >= 0) = (x.den > 0)
                    THEN Abs(x.num) \div Abs(x.den)
                    ELSE -(Abs(x.num) \div Abs(x.den))]

(***************************************************************************)
(* BoxSurface.sample                                                       *)
(***************************************************************************)
NumSamples_proportionalLast(obj, total_mass, num_samples, i, prev_idx) ==
    PyInt(FloatMul(FloatDiv(OrthogonalSurfaceGetMass(obj.surfaces[i]), total_mass),
                   num_samples))

\* _num_samples of iteration i of the loop
NumSamples(obj, total_mass, num_samples, i, prev_idx) ==
    IF i = NumSurfaces(obj) - 1
    THEN [raised |-> "none", value |-> num_samples - prev_idx]
    ELSE PyInt(FloatMul(FloatDiv(OrthogonalSurfaceGetMass(obj.surfaces[i]), total_mass),
                        num_samples))

\* samples[prev_idx : prev_idx + m] = block for one array samples; the slice
\* is clipped to the rows of samples
SliceAssign(samples, num_samples, prev_idx, m, block) ==
    [r \in 0..(num_samples - 1) |->
        IF prev_idx <= r /\ r < prev_idx + m
        THEN (IF m = 1 THEN block[0] ELSE block[r - prev_idx])
        ELSE samples[r]]

\* rows of samples[prev_idx : prev_idx + m]
SliceRows(num_samples, prev_idx, m) ==
    Max2(0, Min2(num_samples, prev_idx + m) - Min2(num_samples, prev_idx))

\* the loop of BoxSurface.sample from iteration i on; st holds prev_idx,
\* the _num_samples of the iterations done and the arrays samples may be
RECURSIVE SampleLoop(_, _, _, _, _)
SampleLoop(obj, total_mass, num_samples, i, st) ==
    IF i >= NumSurfaces(obj) \/ st.raised # "none" THEN st
    ELSE LET c == NumSamples(obj, total_mass, num_samples, i, st.prev_idx)
             m == c.value
         IN  IF c.raised # "none"
             THEN [st EXCEPT !.raised = c.raised]
             ELSE IF m < 0 \/ (SliceRows(num_samples, st.prev_idx, m) # m /\ m # 1)
             THEN [st EXCEPT !.raised = "ValueError",
                             !.counts = [f \in 0..i |-> IF f = i THEN m ELSE st.counts[f]]]
             ELSE SampleLoop(obj, total_mass, num_samples, i + 1,
                    [raised   |-> "none",
                     prev_idx |-> st.prev_idx + m,
                     counts   |-> [f \in 0..i |-> IF f = i THEN m ELSE st.counts[f]],
                     samples  |-> {SliceAssign(a, num_samples, st.prev_idx, m, b) :
                                     a \in st.samples,
                                     b \in OrthogonalSurfaceSample(obj.surfaces[i], m)}])

\* BoxSurface.sample: the exception raised, or the arrays it may return
BoxSurfaceSample(obj, num_samples) ==
    SampleLoop(obj, BoxSurfaceGetMass(obj), num_samples, 0,
               [raised   |-> "none",
                prev_idx |-> 0,
                counts   |-> [f \in {} |-> 0],
                samples  |-> {[r \in 0..(num_samples - 1) |->
                                 [j \in 0..(obj.inp_dim - 1) |-> 0]]}])

(***************************************************************************)
(* BoxSurface.get_normal_func                                              *)
(***************************************************************************)
RECURSIVE ArgMinFrom_last(_, _, _, _)
ArgMinFrom_last(d, n, i, best) ==
    IF i >= n THEN best
    ELSE IF d[i] <= d[best] THEN ArgMinFrom_last(d, n, i + 1, i)
         ELSE ArgMinFrom_last(d, n, i + 1, best)

\* np.argmin over d[i..n-1] given the best index so far: the first
\* occurrence of the minimum
RECURSIVE ArgMinFrom(_, _, _, _)
ArgMinFrom(d, n, i, best) ==
    IF i >= n THEN best
    ELSE IF d[i] < d[best] THEN ArgMinFrom(d, n, i + 1, i)
         ELSE ArgMinFrom(d, n, i + 1, best)

\* the function get_normal_func returns, applied to X (rows 0..m-1): the
\* exception raised, or the normals
NormalFunc(obj, X, m) ==
    IF m > 0 /\ NumSurfaces(obj) = 0
    THEN [raised |-> "ValueError", normals |-> [r \in {} |-> 0]]
    ELSE [raised |-> "none",
          normals |-> [r \in 0..(m - 1) |->
              LET d == [f \in 0..(NumSurfaces(obj) - 1) |-> Distance(obj.surfaces[f], X[r])]
                  surface == obj.surfaces[ArgMinFrom(d, NumSurfaces(obj), 1, 0)]
              IN  OrthogonalSurfaceNormal(surface, X[r])]]

(***************************************************************************)
(* The caller: constructs one region, then queries it                      *)
(***************************************************************************)
VARIABLES
    pc,       \* "new", "ready", "returned" or "raised"
    args,     \* the bound vectors handed to the constructor
    self,     \* the region constructed, NoObject before and after a failure
    call,     \* the operation in progress and its argument
    counts,   \* _num_samples of each iteration of BoxSurface.sample
    result,   \* what the operation returned
    exc       \* the exception the operation raised

vars == <<pc, args, self, call, counts, result, exc>>

NoArgs   == [given |-> FALSE]
NoCall   == [name |-> "none"]
NoCounts == [f \in {} |-> 0]
NoResult == [kind |-> "none"]

Init ==
    /\ pc = "new"
    /\ args = NoArgs
    /\ self = NoObject
    /\ call = NoCall
    /\ counts = NoCounts
    /\ result = NoResult
    /\ exc = "none"

\* obj = Box(upper_bounds, lower_bounds)
NewBox ==
    /\ pc = "new"
    /\ \E upper_bounds \in Arrays, lower_bounds \in Arrays :
         LET obj == BoxInit(upper_bounds, lower_bounds)
         IN  /\ args' = [given |-> TRUE, upper_bounds |-> upper_bounds,
                         lower_bounds |-> lower_bounds]
             /\ exc' = obj.raised
             /\ IF obj.raised = "none"
                THEN pc' = "returned" /\ self' = obj
                ELSE pc' = "raised" /\ self' = NoObject
    /\ call' = [name |-> "__init__", class |-> "Box"]
    /\ UNCHANGED <<counts, result>>

\* obj = BoxSurface(upper_bounds, lower_bounds)
NewBoxSurface ==
    /\ pc = "new"
    /\ \E upper_bounds \in Arrays, lower_bounds \in Arrays :
         LET obj == BoxSurfaceInit(upper_bounds, lower_bounds)
         IN  /\ args' = [given |-> TRUE, upper_bounds |-> upper_bounds,
                         lower_bounds |-> lower_bounds]
             /\ exc' = obj.raised
             /\ IF obj.raised = "none"
                THEN pc' = "returned" /\ self' = obj
                ELSE pc' = "raised" /\ self' = NoObject
    /\ call' = [name |-> "__init__", class |-> "BoxSurface"]
    /\ UNCHANGED <<counts, result>>

\* obj.get_mass()
GetMass ==
    /\ pc = "ready"
    /\ call' = [name |-> "get_mass"]
    /\ result' = [kind |-> "mass",
                  value |-> IF self.class = "Box" THEN BoxGetMass(self)
                            ELSE BoxSurfaceGetMass(self)]
    /\ pc' = "returned"
    /\ exc' = "none"
    /\ UNCHANGED <<args, self, counts>>

\* box.sample(num_samples)
SampleBox ==
    /\ pc = "ready"
    /\ self.class = "Box"
    /\ \E n \in 0..MaxBoxN :
         /\ call' = [name |-> "sample", num_samples |-> n]
         /\ \E a \in BoxSample(self, n) : result' = [kind |-> "points", rows |-> n, samples |-> a]
    /\ pc' = "returned"
    /\ exc' = "none"
    /\ UNCHANGED <<args, self, counts>>

\* box_surface.sample(num_samples)
SampleBoxSurface ==
    /\ pc = "ready"
    /\ self.class = "BoxSurface"
    /\ \E n \in 0..MaxN :
         LET st == BoxSurfaceSample(self, n)
         IN  /\ call' = [name |-> "sample", num_samples |-> n]
             /\ counts' = st.counts
             /\ exc' = st.raised
             /\ IF st.raised = "none"
                THEN /\ pc' = "returned"
                     /\ \E a \in st.samples :
                          result' = [kind |-> "points", rows |-> n, samples |-> a]
                ELSE /\ pc' = "raised"
                     /\ result' = NoResult
    /\ UNCHANGED <<args, self>>

\* box_surface.get_normal_func()(X)
Normal ==
    /\ pc = "ready"
    /\ self.class = "BoxSurface"
    /\ \E m \in 0..MaxPts :
         \E X \in [0..(m - 1) -> [0..(self.inp_dim - 1) -> Vals]] :
           LET out == NormalFunc(self, X, m)
           IN  /\ call' = [name |-> "normal", X |-> X, rows |-> m]
               /\ exc' = out.raised
               /\ IF out.raised = "none"
                  THEN pc' = "returned" /\ result' = [kind |-> "normals", rows |-> m,
                                                      normals |-> out.normals]
                  ELSE pc' = "raised" /\ result' = NoResult
    /\ UNCHANGED <<args, self, counts>>

\* the caller takes the result, or catches the exception, and goes on
Resume ==
    /\ pc \in {"returned", "raised"}
    /\ pc' = IF self.class = "none" THEN "new" ELSE "ready"
    /\ call' = NoCall
    /\ counts' = NoCounts
    /\ result' = NoResult
    /\ exc' = "none"
    /\ args' = IF self.class = "none" THEN NoArgs ELSE args
    /\ UNCHANGED self

Next ==
    \/ NewBox
    \/ NewBoxSurface
    \/ GetMass
    \/ SampleBox
    \/ SampleBoxSurface
    \/ Normal
    \/ Resume

Spec == Init /\ [][Next]_vars

(***************************************************************************)
(* The properties, stated over the constructor's arguments                 *)
(***************************************************************************)
K == args.upper_bounds.shape[1]
U(i) == args.upper_bounds.data[i]
L(i) == args.lower_bounds.data[i]
Extent(i) == Abs(U(i) - L(i))

\* product of the extents of the first n axes, axis i left out
RECURSIVE ProdExcept(_, _)
ProdExcept(i, n) ==
    IF n = 0 THEN 1
    ELSE (IF n - 1 = i THEN 1 ELSE Extent(n - 1)) * ProdExcept(i, n - 1)

\* sum over the first n axes i of 2 * (product of the other extents)
RECURSIVE SurfaceArea(_)
SurfaceArea(n) == IF n = 0 THEN 0 ELSE SurfaceArea(n - 1) + 2 * ProdExcept(n - 1, K)

FacetArea(f) == ProdExcept(f \div 2, K)
FacetOffset(f) == IF f % 2 = 0 THEN U(f \div 2) ELSE L(f \div 2)
FacetNormal(f) == [j \in 0..(K - 1) |->
                     IF j = f \div 2 THEN (IF f % 2 = 0 THEN 1 ELSE -1) ELSE 0]
Facets == 0..(2 * K - 1)
Rows(a) == Cardinality(DOMAIN a)

RECURSIVE CountsBefore(_)
CountsBefore(f) == IF f = 0 THEN 0 ELSE CountsBefore(f - 1) + counts[f - 1]

SampledBoxSurface ==
    /\ call.name = "sample"
    /\ self.class = "BoxSurface"
    /\ pc \in {"returned", "raised"}

SampledBox ==
    /\ call.name = "sample"
    /\ self.class = "Box"
    /\ pc = "returned"

NormalsReturned == call.name = "normal" /\ pc = "returned"

ExactlyN ==
    /\ pc = "returned"
    /\ Rows(result.samples) = call.num_samples
    /\ DOMAIN counts = Facets
    /\ CountsBefore(2 * K) = call.num_samples

\* C1 as stated: BoxSurface.sample(n) returns exactly n points for every
\* BoxSurface and every n >= 0, the per-facet counts summing to n.
C1_EveryBoxSurface == SampledBoxSurface => ExactlyN

\* C1 amended: for every BoxSurface whose total mass is positive and every
\* n >= 0, BoxSurface.sample(n) returns exactly n points and the per-facet
\* counts over all 2k facets sum to n.
C1_ExactlyN == (SampledBoxSurface /\ SurfaceArea(K) > 0) => ExactlyN

\* a call that returned although the proportional shares were rounded down
C1_Witness ==
    /\ SampledBoxSurface /\ pc = "returned" /\ call.num_samples = MaxN
    /\ \E f \in Facets : counts[f] * SurfaceArea(K) # FacetArea(f) * call.num_samples

InBox ==
    /\ Rows(result.samples) = call.num_samples
    /\ \A r \in DOMAIN result.samples :
         /\ DOMAIN result.samples[r] = 0..(K - 1)
         /\ Contains(self, result.samples[r])
         /\ \A i \in 0..(K - 1) : L(i) <= result.samples[r][i] /\ result.samples[r][i] <= U(i)

\* C2 as stated: for every pair of bound vectors Box accepts, whatever the
\* order of lower[i] and upper[i], Box.sample(n) returns n points of
\* dimension k that all satisfy contains.
C2_AnyOrder == SampledBox => InBox

\* C2 amended: for bound vectors with lower[i] <= upper[i] on every axis,
\* Box.sample(n) returns n points of dimension k that all satisfy contains.
C2_InBox == (SampledBox /\ \A i \in 0..(K - 1) : L(i) <= U(i)) => InBox

C2_Witness ==
    /\ SampledBox /\ call.num_samples = MaxBoxN /\ K >= 2
    /\ \A i \in 0..(K - 1) : L(i) < U(i)
    /\ \E r \in DOMAIN result.samples : \E i \in 0..(K - 1) :
         L(i) < result.samples[r][i] /\ result.samples[r][i] < U(i)

OnPlane(x, f) == x[f \div 2] = FacetOffset(f)

\* C3 as stated: a point on the plane of any facet f is mapped to the normal
\* of f.
C3_AnyFacet ==
    NormalsReturned =>
        \A r \in DOMAIN call.X : \A f \in Facets :
            OnPlane(call.X[r], f) => result.normals[r] = FacetNormal(f)

\* C3 amended: a point on the plane of facet f and on the plane of no facet
\* of lower index is mapped to the vector with +1 (top) or -1 (bottom) at
\* f's axis and 0 elsewhere.
C3_FirstFacetOnPlane ==
    NormalsReturned =>
        \A r \in DOMAIN call.X : \A f \in Facets :
            (OnPlane(call.X[r], f) /\ \A g \in 0..(f - 1) : ~OnPlane(call.X[r], g))
                => result.normals[r] = FacetNormal(f)

C3_Witness ==
    /\ NormalsReturned
    /\ \E r \in DOMAIN call.X : \E f \in Facets :
         /\ f >= 3
         /\ OnPlane(call.X[r], f)
         /\ \A g \in 0..(f - 1) : ~OnPlane(call.X[r], g)

\* C4: a BoxSurface over k axes holds 2k facets, get_mass() is the sum over
\* the axes of 2 * (product of the other axes' extents), and the top and the
\* bottom facet of an axis have the same mass.
C4_SurfaceMass ==
    (call.name = "get_mass" /\ self.class = "BoxSurface" /\ pc = "returned") =>
        /\ DOMAIN self.surfaces = Facets
        /\ result.value = SurfaceArea(K)
        /\ \A i \in 0..(K - 1) :
             /\ OrthogonalSurfaceGetMass(self.surfaces[2 * i]) = ProdExcept(i, K)
             /\ OrthogonalSurfaceGetMass(self.surfaces[2 * i + 1]) = ProdExcept(i, K)

C4_Witness ==
    /\ call.name = "get_mass" /\ self.class = "BoxSurface" /\ pc = "returned"
    /\ K = 2
    /\ Extent(0) = 1 /\ Extent(1) = 2
    /\ result.value = 6

BadShapes ==
    \/ args.upper_bounds.shape # args.lower_bounds.shape
    \/ Len(args.upper_bounds.shape) # 1
    \/ Len(args.lower_bounds.shape) # 1

\* C5: constructing a Box or a BoxSurface raises the dimension-mismatch
\* error exactly when the bound vectors differ in shape or are not rank-1;
\* then no region and no facet list exists, and otherwise the stored
\* dimension is the common length.
C5_Construction ==
    call.name = "__init__" =>
        /\ (pc = "raised") = BadShapes
        /\ pc = "raised" => (exc = "ValueError" /\ self = NoObject)
        /\ pc = "returned" =>
             /\ self.class = call.class
             /\ self.inp_dim = K
             /\ self.upper_bounds = args.upper_bounds
             /\ self.lower_bounds = args.lower_bounds

C5_Witness ==
    /\ call.name = "__init__" /\ call.class = "BoxSurface" /\ pc = "raised"
    /\ args.upper_bounds.shape = args.lower_bounds.shape

\* product of the extents of the first n axes
RECURSIVE Volume(_)
Volume(n) == IF n = 0 THEN 1 ELSE Volume(n - 1) * Extent(n - 1)

\* the box with upper and lower swapped on the axes in S
Swapped(box, S) ==
    [box EXCEPT
        !.upper_bounds.data = [i \in DOMAIN @ |-> IF i \in S THEN L(i) ELSE U(i)],
        !.lower_bounds.data = [i \in DOMAIN @ |-> IF i \in S THEN U(i) ELSE L(i)]]

\* C6: Box.get_mass() is the product over the axes of |upper[i] - lower[i]|,
\* 0 when some axis has zero width, and the same for the box with the bounds
\* swapped on any subset of axes.
C6_BoxMass ==
    (call.name = "get_mass" /\ self.class = "Box" /\ pc = "returned") =>
        /\ result.value = Volume(K)
        /\ (\E i \in 0..(K - 1) : U(i) = L(i)) => result.value = 0
        /\ \A S \in SUBSET (0..(K - 1)) : BoxGetMass(Swapped(self, S)) = result.value

C6_Witness ==
    /\ call.name = "get_mass" /\ self.class = "Box" /\ pc = "returned"
    /\ K = 2 /\ U(0) < L(0) /\ U(1) > L(1)
    /\ result.value > 0

\* C7: with positive total mass every facet but the last is allocated
\* floor(facet_mass / total_mass * n) points and the last facet n minus the
\* counts of all earlier facets.
C7_Allocation ==
    (SampledBoxSurface /\ SurfaceArea(K) > 0) =>
        /\ DOMAIN counts = Facets
        /\ \A f \in 0..(2 * K - 2) :
             /\ counts[f] * SurfaceArea(K) <= FacetArea(f) * call.num_samples
             /\ FacetArea(f) * call.num_samples < (counts[f] + 1) * SurfaceArea(K)
        /\ counts[2 * K - 1] = call.num_samples - CountsBefore(2 * K - 1)

\* the last facet holds more than its proportional share
C7_Witness ==
    /\ SampledBoxSurface /\ SurfaceArea(K) > 0 /\ K >= 2
    /\ counts[2 * K - 1] * SurfaceArea(K) > FacetArea(2 * K - 1) * call.num_samples
    /\ FacetArea(0) > 0

\* the facet whose block holds row r
BlockOf(r) == CHOOSE f \in Facets : CountsBefore(f) <= r /\ r < CountsBefore(f + 1)

RowsOfBlocks ==
    \A r \in DOMAIN result.samples :
        /\ \E f \in Facets : CountsBefore(f) <= r /\ r < CountsBefore(f + 1)
        /\ LET f == BlockOf(r)
               x == result.samples[r]
           IN  /\ x[f \div 2] = FacetOffset(f)
               /\ \A j \in 0..(K - 1) :
                    Min2(L(j), U(j)) <= x[j] /\ x[j] <= Max2(L(j), U(j))
               /\ \E j \in 0..(K - 1) : x[j] \in {L(j), U(j)}

\* C8 as stated: for every BoxSurface the result of sample(n) is the facets'
\* samples in facet order, so that every returned point has a coordinate
\* equal to a bound extreme.
C8_AnyBoxSurface == (SampledBoxSurface /\ pc = "returned") => RowsOfBlocks

\* C8 amended: for a BoxSurface with at least one axis the result of
\* sample(n) is the facets' samples in facet order; a row of the block of
\* facet 2i has coordinate i equal to upper[i], a row of the block of facet
\* 2i+1 has coordinate i equal to lower[i], every other coordinate j lies
\* between lower[j] and upper[j], and so every returned point has a
\* coordinate equal to a bound extreme.
C8_Blocks == (SampledBoxSurface /\ pc = "returned" /\ K >= 1) => RowsOfBlocks

C8_Witness ==
    /\ SampledBoxSurface /\ pc = "returned" /\ call.num_samples = MaxN
    /\ K >= 2
    /\ \A j \in 0..(K - 1) : L(j) # U(j)
    /\ \E r, q \in DOMAIN result.samples :
         BlockOf(r) % 2 = 0 /\ BlockOf(q) % 2 = 1

PlaneDistance(x, f) == Abs(x[f \div 2] - FacetOffset(f))

\* C9: each point is given the normal of the facet of smallest plane
\* distance, the lowest index among the facets attaining the minimum,
\* whatever its position along the other axes; each output row has exactly
\* one non-zero entry, +1 or -1.
C9_NearestFacet ==
    NormalsReturned =>
        \A r \in DOMAIN call.X :
            \E f \in Facets :
                /\ result.normals[r] = FacetNormal(f)
                /\ Cardinality({j \in 0..(K - 1) : result.normals[r][j] # 0}) = 1
                /\ \A g \in Facets :
                     /\ PlaneDistance(call.X[r], f) <= PlaneDistance(call.X[r], g)
                     /\ g < f => PlaneDistance(call.X[r], f) < PlaneDistance(call.X[r], g)

\* a tie between two facets, for a point beside the box
C9_Witness ==
    /\ NormalsReturned
    /\ \E r \in DOMAIN call.X : \E f \in Facets : \E g \in Facets :
         /\ result.normals[r] = FacetNormal(f)
         /\ f < g
         /\ PlaneDistance(call.X[r], f) = PlaneDistance(call.X[r], g)
         /\ \E j \in 0..(K - 1) :
              j # f \div 2 /\ call.X[r][j] > Max2(L(j), U(j))

\* C10: when the total mass of a BoxSurface with at least one facet is 0,
\* sample(n) ends in an error for every n: no point set is returned and no
\* fallback allocation is made.
C10_ZeroMass ==
    (SampledBoxSurface /\ K >= 1 /\ SurfaceArea(K) = 0) =>
        /\ pc = "raised"
        /\ exc = "ValueError"
        /\ result = NoResult
        /\ counts = NoCounts

C10_Witness ==
    /\ SampledBoxSurface /\ K >= 2 /\ SurfaceArea(K) = 0
    /\ call.num_samples = 0
    /\ pc = "raised"

====
